---- MODULE Spec2Model ----
(***************************************************************************)
(* Cleaning subsystem of sysx: scan_cleanable_items, the six clean_*       *)
(* executor actions, perform_cleaning and the exception handling of main,  *)
(* with get_dir_size and format_bytes that they rely on.                   *)
(*                                                                         *)
(* Strings that the code builds and hands to a shell (paths, command       *)
(* lines, the confirmation response) are sequences of tokens.  The tokens  *)
(* "/" and " " are the path separator and a blank; every other token is a  *)
(* run of ordinary characters.  "/home/a b" is <<"/","home","/","a"," ",   *)
(* "b">>.                                                                  *)
(***************************************************************************)
EXTENDS Integers, Sequences, FiniteSets, TLC

VARIABLES
    home,           \* os.path.expanduser("~")
    dry_run,        \* args.dry_run
    euid_root,      \* what is_root() answers
    stdin,          \* the lines typed at the terminal and not yet read
    dirs,           \* directories that exist on the host
    files,          \* regular files on the host: path -> size in bytes
    links,          \* symbolic links on the host: path -> target path
    nostat,         \* entries on which os.stat fails (EACCES, or gone)
    denied,         \* directories whose listing fails with EACCES
    installed,      \* programs that `which` finds on the PATH
    pc,             \* position of the session
    step,           \* index of the executor block of perform_cleaning
    sub,            \* index of the next external command inside the executor
    cleanable,      \* perform_cleaning: cleanable (the pre-snapshot)
    total,          \* perform_cleaning: total
    new_cleanable,  \* perform_cleaning: new_cleanable (the post-snapshot)
    new_total,      \* perform_cleaning: new_total
    freed,          \* perform_cleaning: freed
    rendered,       \* the text format_bytes(freed) of the report
    response,       \* perform_cleaning: response
    status,         \* exit status of the process, -1 while it runs
    trace,          \* history: what the session did, in order
    removed,        \* history: <<path, executor>> of every entry removed
    env_writes,     \* history: concurrent writes by other processes
    find_failed,    \* history: a find of clean_old_logs did not exit 0
    dirpath,        \* get_dir_size: the argument of the call on its own
    total_size      \* get_dir_size: what that call returned

vars == <<home, dry_run, euid_root, stdin, dirs, files, links, nostat, denied,
          installed, pc, step, sub, cleanable, total, new_cleanable, new_total,
          freed, rendered, response, status, trace, removed, env_writes,
          find_failed, dirpath, total_size>>

(***************************************************************************)
(* Bounds                                                                  *)
(***************************************************************************)
MaxLen == 2          \* longest line read at the confirmation prompt
MaxEnvWrites == 1    \* concurrent writes of other processes per session

(***************************************************************************)
(* Paths                                                                   *)
(***************************************************************************)
\* os.path.join(a, b) for a relative single-name b
Join(p, name) == p \o <<"/", name>>

RECURSIVE LastSlash(_, _)
LastSlash(p, i) == IF i = 0 THEN 0
                   ELSE IF p[i] = "/" THEN i ELSE LastSlash(p, i - 1)

Parent(p) == SubSeq(p, 1, LastSlash(p, Len(p)) - 1)
Name(p) == SubSeq(p, LastSlash(p, Len(p)) + 1, Len(p))

\* q is p or lies below p
Under(p, q) ==
    \/ q = p
    \/ /\ Len(q) > Len(p) + 1
       /\ SubSeq(q, 1, Len(p)) = p
       /\ q[Len(p) + 1] = "/"

\* cleaner.py: the fixed paths
AptDir == <<"/", "var", "/", "cache", "/", "apt", "/", "archives">>
DnfDir == <<"/", "var", "/", "cache", "/", "dnf">>
YumDir == <<"/", "var", "/", "cache", "/", "yum">>
TmpDir == <<"/", "tmp">>
VarTmpDir == <<"/", "var", "/", "tmp">>
VarLogDir == <<"/", "var", "/", "log">>
JournalDir == <<"/", "var", "/", "log", "/", "journal">>
CacheDir(h) == Join(h, ".cache")
ThumbnailDir(h) == Join(Join(h, ".cache"), "thumbnails")

(***************************************************************************)
(* helpers.py                                                              *)
(***************************************************************************)
\* dir_exists: os.path.isdir
dir_exists(p) == p \in dirs

\* os.stat(p) raises OSError: the entry cannot be examined, or it is a
\* symbolic link whose target is missing or cannot be examined
StatFails(p) ==
    \/ p \in nostat
    \/ p \in DOMAIN links /\ (links[p] \notin DOMAIN files \/ links[p] \in nostat)

\* os.path.getsize(p) where os.stat succeeds: st_size of the file, or of the
\* file that the symbolic link leads to
getsize(p) == IF p \in DOMAIN links THEN files[links[p]] ELSE files[p]

\* total_size += os.path.getsize(filepath) for every filepath in S, an
\* OSError skipping the entry
RECURSIVE SumSizes(_)
SumSizes(S) == IF S = {} THEN 0
               ELSE LET p == CHOOSE q \in S : TRUE
                    IN  (IF StatFails(p) THEN 0 ELSE getsize(p))
                        + SumSizes(S \ {p})

\* The entries os.walk(top) reports as filenames: what is not a directory.
\* A symbolic link to a directory is among the dirnames and is not
\* descended into.  A directory whose listing fails is skipped (os.walk
\* ignores scandir errors), a missing top yields nothing.
Walk(top) ==
    IF top \notin dirs THEN {}
    ELSE {p \in DOMAIN files \cup {l \in DOMAIN links : links[l] \notin dirs} :
            /\ Under(top, p)
            /\ \A x \in denied : ~(Under(top, x) /\ Under(x, Parent(p)))}

\* get_dir_size: every entry of the walk adds os.path.getsize
get_dir_size(top) == SumSizes(Walk(top))

(***************************************************************************)
(* cleaner.py: scan_cleanable_items                                        *)
(***************************************************************************)
Categories == {"apt_cache", "dnf_cache", "yum_cache", "user_cache",
               "thumbnail_cache", "tmp", "var_tmp", "system_logs",
               "journal_logs", "old_logs"}

Empty == [c \in {} |-> 0]

\* a block that leaves out a category of size 0
ProbeNonZero(key, path) ==
    IF dir_exists(path) /\ get_dir_size(path) > 0
    THEN key :> get_dir_size(path) ELSE Empty

\* one "if dir_exists(path): cleanable[key] = get_dir_size(path)" block
Probe(key, path) == IF dir_exists(path) THEN key :> get_dir_size(path) ELSE Empty

\* file.endswith(('.gz', '.1', '.2', '.old'))
OldLogSuffixes == {".gz", ".1", ".2", ".old"}
EndsWith(name, suffixes) == Len(name) > 0 /\ name[Len(name)] \in suffixes

\* lines 69-82: the walk of /var/log that sums the rotated files
OldLogsSize ==
    IF dir_exists(VarLogDir)
    THEN SumSizes({p \in Walk(VarLogDir) : EndsWith(Name(p), OldLogSuffixes)})
    ELSE 0

\* two independent ifs in place of if ... elif
ProbeDnfYumBoth == Probe("dnf_cache", DnfDir) @@ Probe("yum_cache", YumDir)

\* lines 28-34: if dnf ... elif yum
ProbeDnfYum ==
    IF dir_exists(DnfDir) THEN "dnf_cache" :> get_dir_size(DnfDir)
    ELSE IF dir_exists(YumDir) THEN "yum_cache" :> get_dir_size(YumDir)
    ELSE Empty

\* a scan that leaves out old_logs when it is 0
scan_old_logs_if_any ==
    Probe("apt_cache", AptDir)
    @@ ProbeDnfYum
    @@ Probe("user_cache", CacheDir(home))
    @@ Probe("thumbnail_cache", ThumbnailDir(home))
    @@ Probe("tmp", TmpDir)
    @@ Probe("var_tmp", VarTmpDir)
    @@ Probe("system_logs", VarLogDir)
    @@ Probe("journal_logs", JournalDir)
    @@ (IF OldLogsSize > 0 THEN "old_logs" :> OldLogsSize ELSE Empty)

\* Later keys never repeat an earlier one, so @@ is the dict update.
scan_cleanable_items ==
    Probe("apt_cache", AptDir)
    @@ ProbeDnfYum
    @@ Probe("user_cache", CacheDir(home))
    @@ Probe("thumbnail_cache", ThumbnailDir(home))
    @@ Probe("tmp", TmpDir)
    @@ Probe("var_tmp", VarTmpDir)
    @@ Probe("system_logs", VarLogDir)
    @@ Probe("journal_logs", JournalDir)
    @@ ("old_logs" :> OldLogsSize)

\* sum(cleanable.values())
RECURSIVE SumValues(_)
SumValues(f) == IF DOMAIN f = {} THEN 0
                ELSE LET k == CHOOSE c \in DOMAIN f : TRUE
                     IN  f[k] + SumValues([c \in DOMAIN f \ {k} |-> f[c]])

(***************************************************************************)
(* External commands: helpers.py run_command and what the host does with   *)
(* the command line                                                        *)
(***************************************************************************)
\* How one subprocess.run call can end.  launch_failure is the program not
\* being found; interrupt is SIGINT arriving while the child runs.
Outcomes == {"exit0", "nonzero", "timeout", "launch_failure", "interrupt"}

\* what subprocess.run raises
Raised(o) ==
    CASE o = "timeout" -> "TimeoutExpired"
      [] o = "launch_failure" -> "FileNotFoundError"
      [] o = "interrupt" -> "KeyboardInterrupt"
      [] OTHER -> "none"

\* an except clause that forgets the timeout
CaughtNoTimeout == {"SubprocessError", "FileNotFoundError"}

\* helpers.py line 35: the except clause of run_command
Caught == {"TimeoutExpired", "SubprocessError", "FileNotFoundError"}

\* run_command: "stdout" for the output string, "None", or the name of the
\* exception that leaves run_command
run_command(o) ==
    LET e == Raised(o)
    IN  IF e = "none" THEN (IF o = "exit0" THEN "stdout" ELSE "None")
        ELSE IF e \in Caught THEN "None"
        ELSE e

\* the programs that the executor actions look for with command_exists
Tools == {"apt-get", "dnf", "yum", "journalctl"}

\* How `which tool` can end: it exits 0 only when the tool is on the PATH.
WhichOutcomes(tool) ==
    IF tool \in installed THEN Outcomes ELSE Outcomes \ {"exit0"}

\* str.split() and the shell's word splitting: words between blanks
RECURSIVE WordEnd(_, _)
WordEnd(s, i) == IF i > Len(s) \/ s[i] = " " THEN i - 1 ELSE WordEnd(s, i + 1)

RECURSIVE Split(_)
Split(s) ==
    IF s = <<>> THEN <<>>
    ELSE IF Head(s) = " " THEN Split(Tail(s))
    ELSE LET n == WordEnd(s, 1)
         IN  <<SubSeq(s, 1, n)>> \o Split(SubSeq(s, n + 1, Len(s)))

\* the command lines the code builds
WhichCmd(command) == <<"which", " ", command>>
AptClean == <<"apt-get", " ", "clean">>
AptAutoclean == <<"apt-get", " ", "autoclean">>
DnfCleanAll == <<"dnf", " ", "clean", " ", "all">>
YumCleanAll == <<"yum", " ", "clean", " ", "all">>
JournalVacuum == <<"journalctl", " ", "--vacuum-time=3d">>
RmCmd(subdir_path) == <<"rm", " ", "-rf", " ">> \o subdir_path \o <<"/", "*">>
FindCmd(suffix) ==
    <<"find", " ">> \o VarLogDir
    \o <<" ", "-type", " ", "f", " ", "-name", " ", "'", "*", suffix, "'",
         " ", "-delete">>

\* names the shell's * does not match
DotTokens == {".cache", ".gz", ".1", ".2", ".old"}
Hidden(name) == Len(name) > 0 /\ name[1] \in DotTokens

\* working directory of the process, where relative arguments resolve
Cwd == <<"/", "srv">>
Resolve(arg) == IF Len(arg) > 0 /\ arg[1] = "/" THEN arg ELSE Cwd \o <<"/">> \o arg

Entries == dirs \cup DOMAIN files

\* pathname expansion of one word by /bin/sh: a trailing /* becomes the
\* entries of the directory, and stays as it is when nothing matches
Glob(word) ==
    LET n == Len(word)
    IN  IF n >= 2 /\ word[n] = "*" /\ word[n - 1] = "/"
        THEN LET base == Resolve(SubSeq(word, 1, n - 2))
                 hits == {p \in Entries : Parent(p) = base /\ ~Hidden(Name(p))}
             IN  IF hits = {} THEN {Resolve(word)} ELSE hits
        ELSE {Resolve(word)}

\* rm -rf roots: each root and everything below it
RmTargets(words) ==
    LET roots == UNION {Glob(words[i]) : i \in 3..Len(words)}
    IN  {p \in Entries : \E r \in roots : Under(r, p)}

\* find ROOT -type f -delete, the -name test lost
FindTargetsAnyName(words) == {p \in DOMAIN files : Under(words[2], p)}

\* find ROOT -type f -name '*SUFFIX' -delete
FindTargets(words) ==
    LET root == words[2]
        pattern == SelectSeq(words[6], LAMBDA t : t # "'")
    IN  {p \in DOMAIN files :
            /\ Under(root, p)
            /\ EndsWith(Name(p), {pattern[Len(pattern)]})}

\* the package managers and journalctl empty their own stores
StoreOf(prog) ==
    CASE prog = "apt-get" -> AptDir
      [] prog = "dnf" -> DnfDir
      [] prog = "yum" -> YumDir
      [] prog = "journalctl" -> JournalDir

\* what the command line removes when it runs to completion
Targets(line) ==
    LET words == Split(line)
        prog == words[1][1]
    IN  CASE prog = "which" -> {}
          [] prog = "rm" -> RmTargets(words)
          [] prog = "find" -> FindTargets(words)
          [] OTHER -> {p \in DOMAIN files : Under(StoreOf(prog), p) /\ p # StoreOf(prog)}

\* autoclean and the journal vacuum remove only what is out of date, so
\* even exit status 0 may leave everything in place
Selective(line) == line \in {AptAutoclean, JournalVacuum}

\* What a command with targets T can have removed when it ends with o:
\* all of T after exit0 of a command that is not selective, nothing when it
\* was not launched, all or nothing otherwise
Effects(line, T, o) ==
    CASE o = "launch_failure" -> {{}}
      [] o = "exit0" /\ ~Selective(line) -> {T}
      [] OTHER -> {{}, T}

Event(k, a) == [k |-> k, a |-> a]

\* One subprocess.run of line by executor fn that removed gone: the host's
\* files and the history.  before: events that precede the command in the
\* same step.
Run(line, fn, o, gone, before) ==
    /\ files' = [p \in DOMAIN files \ gone |-> files[p]]
    /\ dirs' = dirs \ gone
    /\ removed' = removed \cup {<<p, fn>> : p \in gone}
    /\ trace' = trace \o before \o <<Event("cmd", line)>>
                \o (IF o = "interrupt" THEN <<Event("interrupt", <<>>)>> ELSE <<>>)

(***************************************************************************)
(* Hosts                                                                   *)
(***************************************************************************)
HomeUser == <<"/", "home", "/", "u">>
HomeSpace == <<"/", "home", "/", "a", " ", "b">>
HomeTmp == <<"/", "tmp", "/", "h">>
Homes == {HomeUser, HomeSpace, HomeTmp}

\* home directory of another account; present on every host
OtherHome == <<"/", "home", "/", "a">>

\* clean_user_cache: safe_dirs
safe_dirs == <<"thumbnails", "mozilla", "chromium", "google-chrome">>

OptionalDirs(h) ==
    {AptDir, DnfDir, YumDir, TmpDir, VarTmpDir, VarLogDir, JournalDir,
     CacheDir(h), ThumbnailDir(h), Join(CacheDir(h), "mozilla")}

\* a directory exists only inside an existing directory
Closed(D, h) == \A d \in D : \A e \in OptionalDirs(h) : Under(e, d) => e \in D

\* the files a host may hold, with their sizes in bytes
FileTable(h) ==
    {<<Join(AptDir, "pkg.deb"), 1>>,
     <<Join(DnfDir, "repo.solv"), 2>>,
     <<Join(YumDir, "repo.xml"), 4>>,
     <<Join(CacheDir(h), "fontconfig"), 8>>,
     <<Join(ThumbnailDir(h), "t.png"), 16>>,
     <<Join(Join(CacheDir(h), "mozilla"), "m.bin"), 32>>,
     <<Join(TmpDir, "x.tmp"), 64>>,
     <<Join(VarTmpDir, "y.tmp"), 128>>,
     <<Join(VarLogDir, "syslog"), 256>>,
     <<VarLogDir \o <<"/", "syslog", ".1">>, 512>>,
     <<VarLogDir \o <<"/", "dpkg.log", ".gz">>, 1024>>,
     <<Join(JournalDir, "system.journal"), 2048>>,
     <<Join(OtherHome, "notes"), 4096>>}

Rotated(p) == Parent(p) = VarLogDir /\ EndsWith(Name(p), OldLogSuffixes)

\* the files of a host with directories D; rot: rotated logs are there
HostFiles(h, D, rot) ==
    LET T == {t \in FileTable(h) : Parent(t[1]) \in D /\ (Rotated(t[1]) => rot)}
    IN  [p \in {t[1] : t \in T} |-> (CHOOSE t \in T : t[1] = p)[2]]

\* the symbolic links a host may hold: to a file beside it, to a file
\* elsewhere, to nothing, to a directory
LatestLink == <<VarLogDir \o <<"/", "latest", ".gz">>, Join(VarLogDir, "syslog")>>

LinkTable ==
    {LatestLink,
     <<Join(TmpDir, "notes"), Join(OtherHome, "notes")>>,
     <<Join(TmpDir, "gone"), Join(TmpDir, "missing")>>,
     <<Join(TmpDir, "logs"), VarLogDir>>}

\* the links of L on a host with directories D
HostLinks(D, L) ==
    LET T == {t \in L : Parent(t[1]) \in D}
    IN  [l \in {t[1] : t \in T} |-> (CHOOSE t \in T : t[1] = l)[2]]

NoLinks == HostLinks({}, {})

\* the files that may be impossible to examine
Unreadable == {Join(TmpDir, "x.tmp"), Join(VarLogDir, "syslog")}

Lines == UNION {[1..n -> {"y", "Y", "n", " "}] : n \in 0..MaxLen}

\* what input() finds when the terminal was closed (end of file)
EndOfFile == <<"EOF">>

\* what is installed: everything, nothing, or an RPM host (no apt-get,
\* no yum)
ToolSets == {Tools, {}, {"dnf", "journalctl"}}

InitSession ==
    /\ stdin = <<>>
    /\ step = 0
    /\ sub = 0
    /\ cleanable = Empty
    /\ total = 0
    /\ new_cleanable = Empty
    /\ new_total = 0
    /\ freed = 0
    /\ rendered = <<>>
    /\ response = <<>>
    /\ status = -1
    /\ trace = <<>>
    /\ removed = {}
    /\ env_writes = 0
    /\ find_failed = FALSE
    /\ dirpath = <<>>
    /\ total_size = 0

\* The hosts of a session: /tmp and /var/tmp are there, every listing
\* succeeds, and /var/log holds rotated files.  A host has the usual home
\* directory and no browser cache, or it has no package cache and no
\* journal (and then what is installed makes no difference).  The host
\* with nothing but /tmp, /var/tmp and /var/log may hold a symbolic link
\* in /var/log; no command of a session removes a link there.
Init ==
    /\ home \in Homes
    /\ dry_run \in BOOLEAN
    /\ euid_root \in BOOLEAN
    /\ \E D \in SUBSET OptionalDirs(home) :
          /\ Closed(D, home)
          /\ {TmpDir, VarTmpDir} \subseteq D
          /\ \/ home = HomeUser /\ Join(CacheDir(home), "mozilla") \notin D
             \/ D \cap {AptDir, DnfDir, YumDir, JournalDir} = {}
          /\ dirs = D \cup {OtherHome}
          /\ files = HostFiles(home, dirs, TRUE)
          /\ IF D \cap {AptDir, DnfDir, YumDir, JournalDir} = {}
             THEN installed = Tools
             ELSE installed \in ToolSets
    /\ denied = {}
    /\ links \in {NoLinks} \cup
                (IF home = HomeUser /\ dirs = {TmpDir, VarTmpDir, VarLogDir, OtherHome}
                 THEN {HostLinks(dirs, {LatestLink})} ELSE {})
    /\ nostat = {}
    /\ pc = "Start"
    /\ InitSession

\* The hosts of a single scan: any directories, with or without rotated
\* files, any of the log directories unreadable.
InitScan ==
    /\ home \in Homes
    /\ dry_run \in BOOLEAN
    /\ euid_root \in BOOLEAN
    /\ \E D \in SUBSET OptionalDirs(home), rot \in BOOLEAN :
          /\ Closed(D, home)
          /\ rot => VarLogDir \in D
          /\ dirs = D \cup {OtherHome}
          /\ files = HostFiles(home, dirs, rot)
    /\ denied \in SUBSET (dirs \cap {VarLogDir, JournalDir})
    /\ installed = Tools
    /\ links = NoLinks
    /\ nostat = {}
    /\ pc = "Scanning"
    /\ InitSession

\* The hosts of a single get_dir_size call: the usual home directory, no
\* package cache; symbolic links, entries that cannot be examined and
\* directories that cannot be listed.
InitSize ==
    /\ home = HomeUser
    /\ dry_run = FALSE
    /\ euid_root = FALSE
    /\ \E D \in SUBSET {TmpDir, VarLogDir, JournalDir, CacheDir(home),
                        ThumbnailDir(home)} :
          /\ Closed(D, home)
          /\ dirs = D \cup {OtherHome}
          /\ files = HostFiles(home, dirs, TRUE)
    /\ \E L \in SUBSET LinkTable : links = HostLinks(dirs, L)
    /\ nostat \in SUBSET (DOMAIN files \cap Unreadable)
    /\ denied \in SUBSET (dirs \cap {JournalDir, ThumbnailDir(home)})
    /\ installed = Tools
    /\ pc = "Sizing"
    /\ InitSession

(***************************************************************************)
(* cli.py main: how an exception that leaves perform_cleaning ends the      *)
(* process                                                                 *)
(***************************************************************************)
host == <<home, dry_run, euid_root, denied, installed, links, nostat>>
sizing == <<dirpath, total_size>>
fsys == <<dirs, files, removed>>
report == <<new_cleanable, new_total, freed, rendered>>

ExitOn(e) ==
    /\ pc' = IF e = "KeyboardInterrupt" THEN "Exit130" ELSE "Exit1"
    /\ status' = IF e = "KeyboardInterrupt" THEN 130 ELSE 1

Running == {"Start", "Scanning", "Summarizing", "AwaitingConfirmation",
            "Executing", "Rescanning"}

(***************************************************************************)
(* cleaner.py: perform_cleaning                                            *)
(***************************************************************************)
\* str.strip()
RECURSIVE LStrip(_)
LStrip(s) == IF s # <<>> /\ Head(s) = " " THEN LStrip(Tail(s)) ELSE s

RECURSIVE RStrip(_)
RStrip(s) == IF s # <<>> /\ s[Len(s)] = " " THEN RStrip(SubSeq(s, 1, Len(s) - 1)) ELSE s

Strip(s) == RStrip(LStrip(s))

\* str.lower()
Lower(s) == [i \in DOMAIN s |-> IF s[i] = "Y" THEN "y" ELSE s[i]]

\* a response compared by its first character only
NormalizeFirstChar(line) ==
    LET r == Lower(Strip(line)) IN IF r = <<>> THEN r ELSE <<r[1]>>

\* line 215: input().strip().lower()
Normalize(line) == Lower(Strip(line))

\* an advisory that does not look at dry_run
StartAdvisoryNotRoot ==
    /\ pc = "Start"
    /\ trace' = trace \o (IF ~euid_root
                          THEN <<Event("advisory", <<>>)>> ELSE <<>>)
    /\ pc' = "Scanning"
    /\ UNCHANGED <<host, sizing, find_failed, stdin, fsys, step, sub, cleanable, total, report,
                   response, status, env_writes>>

\* lines 188-198: banner and the advisory
Start ==
    /\ pc = "Start"
    /\ trace' = trace \o (IF ~euid_root /\ ~dry_run
                          THEN <<Event("advisory", <<>>)>> ELSE <<>>)
    /\ pc' = "Scanning"
    /\ UNCHANGED <<host, sizing, find_failed, stdin, fsys, step, sub, cleanable, total, report,
                   response, status, env_writes>>

\* line 199
Scan ==
    /\ pc = "Scanning"
    /\ cleanable' = scan_cleanable_items
    /\ trace' = Append(trace, Event("scan", <<>>))
    /\ pc' = "Summarizing"
    /\ UNCHANGED <<host, sizing, find_failed, stdin, fsys, step, sub, total, report, response,
                   status, env_writes>>

\* the summary without the dry-run return
SummarizeNoReturn ==
    /\ pc = "Summarizing"
    /\ total' = SumValues(cleanable)
    /\ trace' = trace \o <<Event("summary", <<>>), Event("prompt", <<>>)>>
    /\ pc' = "AwaitingConfirmation"
    /\ UNCHANGED <<host, sizing, find_failed, stdin, fsys, step, sub, cleanable, report, response,
                   status, env_writes>>

\* lines 202-214: the summary, then the dry-run return or the prompt
Summarize ==
    /\ pc = "Summarizing"
    /\ total' = SumValues(cleanable)
    /\ IF dry_run
       THEN /\ trace' = Append(trace, Event("summary", <<>>))
            /\ pc' = "DryRunExit"
            /\ status' = 0
       ELSE /\ trace' = trace \o <<Event("summary", <<>>), Event("prompt", <<>>)>>
            /\ pc' = "AwaitingConfirmation"
            /\ status' = status
    /\ UNCHANGED <<host, sizing, find_failed, stdin, fsys, step, sub, cleanable, report, response,
                   env_writes>>

\* the user answers the prompt with a line, or closes the terminal
UserTypes ==
    /\ pc = "AwaitingConfirmation"
    /\ stdin = <<>>
    /\ stdin' \in {<<l>> : l \in Lines \cup {EndOfFile}}
    /\ UNCHANGED <<host, sizing, find_failed, fsys, pc, step, sub, cleanable, total, report,
                   response, status, trace, env_writes>>

\* lines 215-221: input() blocks until a line is there, and raises EOFError
\* at end of file
Confirm ==
    /\ pc = "AwaitingConfirmation"
    /\ stdin # <<>>
    /\ IF Head(stdin) = EndOfFile
       THEN /\ ExitOn("EOFError")
            /\ UNCHANGED <<stdin, response, step>>
       ELSE /\ response' = Normalize(Head(stdin))
            /\ stdin' = Tail(stdin)
            /\ IF response' # <<"y">>
               THEN pc' = "Cancelled" /\ status' = 0 /\ step' = step
               ELSE pc' = "Executing" /\ status' = status /\ step' = 1
    /\ trace' = Append(trace, Event("read", <<>>))
    /\ UNCHANGED <<host, sizing, find_failed, fsys, sub, cleanable, total, report, env_writes>>

\* the first two keys swapped
ExecOrderSwapped == <<"dnf_cache", "apt_cache", "yum_cache", "user_cache",
                      "journal_logs", "old_logs">>

\* the keys tested by the if-blocks of lines 224-240, in order
ExecOrder == <<"apt_cache", "dnf_cache", "yum_cache", "user_cache",
               "journal_logs", "old_logs">>

\* the rescan reached one block early
AdvanceEarly(k, s) ==
    /\ step' = k
    /\ sub' = s
    /\ pc' = IF k >= Len(ExecOrder) THEN "Rescanning" ELSE "Executing"
    /\ status' = status

\* control moves to command s of block k, or past the last block
Advance(k, s) ==
    /\ step' = k
    /\ sub' = s
    /\ pc' = IF k > Len(ExecOrder) THEN "Rescanning" ELSE "Executing"
    /\ status' = status

\* an if-block whose category is not in cleanable
SkipCategory ==
    /\ pc = "Executing"
    /\ sub = 0
    /\ ExecOrder[step] \notin DOMAIN cleanable
    /\ Advance(step + 1, 0)
    /\ UNCHANGED <<host, sizing, find_failed, stdin, fsys, cleanable, total, report, response,
                   trace, env_writes>>

\* the commands run whatever command_exists answers
ToolCleanNoProbe(k, fn, tool, lines) ==
    /\ pc = "Executing"
    /\ step = k
    /\ ExecOrder[k] \in DOMAIN cleanable
    /\ \E line \in {IF sub = 0 THEN WhichCmd(tool) ELSE lines[sub]} :
       \E T \in {Targets(line)},
          o \in (IF sub = 0 THEN WhichOutcomes(tool) ELSE Outcomes) :
       \E gone \in Effects(line, T, o) :
          LET r == run_command(o)
          IN  /\ Run(line, fn, o, gone,
                     IF sub = 0 THEN <<Event("exec", <<fn>>)>> ELSE <<>>)
              /\ IF r \notin {"stdout", "None"}
                 THEN ExitOn(r) /\ UNCHANGED <<step, sub>>
                 ELSE IF sub = Len(lines) THEN Advance(k + 1, 0)
                 ELSE Advance(k, sub + 1)
    /\ UNCHANGED <<host, sizing, find_failed, stdin, cleanable, total, report, response, env_writes>>

\* clean_apt_cache, clean_dnf_cache, clean_yum_cache, clean_journal_logs:
\* if command_exists(tool): run the commands.  One external command a step.
ToolClean(k, fn, tool, lines) ==
    /\ pc = "Executing"
    /\ step = k
    /\ ExecOrder[k] \in DOMAIN cleanable
    /\ \E line \in {IF sub = 0 THEN WhichCmd(tool) ELSE lines[sub]} :
       \E T \in {Targets(line)},
          o \in (IF sub = 0 THEN WhichOutcomes(tool) ELSE Outcomes) :
       \E gone \in Effects(line, T, o) :
          LET r == run_command(o)
          IN  /\ Run(line, fn, o, gone,
                     IF sub = 0 THEN <<Event("exec", <<fn>>)>> ELSE <<>>)
              /\ IF r \notin {"stdout", "None"}
                 THEN ExitOn(r) /\ UNCHANGED <<step, sub>>
                 ELSE IF sub = 0 /\ r = "None" THEN Advance(k + 1, 0)
                 ELSE IF sub = Len(lines) THEN Advance(k + 1, 0)
                 ELSE Advance(k, sub + 1)
    /\ UNCHANGED <<host, sizing, find_failed, stdin, cleanable, total, report, response, env_writes>>

CleanAptCache == ToolClean(1, "clean_apt_cache", "apt-get", <<AptClean, AptAutoclean>>)
CleanDnfCache == ToolClean(2, "clean_dnf_cache", "dnf", <<DnfCleanAll>>)
CleanYumCache == ToolClean(3, "clean_yum_cache", "yum", <<YumCleanAll>>)
CleanJournalLogs == ToolClean(5, "clean_journal_logs", "journalctl", <<JournalVacuum>>)

\* clean_user_cache: the bare "except: pass" around run_command swallows
\* every exception, KeyboardInterrupt included
CleanUserCache ==
    /\ pc = "Executing"
    /\ step = 4
    /\ "user_cache" \in DOMAIN cleanable
    /\ IF sub = 0
       THEN /\ trace' = Append(trace, Event("exec", <<"clean_user_cache">>))
            /\ IF dir_exists(CacheDir(home)) THEN Advance(4, 1) ELSE Advance(5, 0)
            /\ UNCHANGED fsys
       ELSE LET subdir_path == Join(CacheDir(home), safe_dirs[sub])
                next == IF sub = Len(safe_dirs) THEN Advance(5, 0)
                        ELSE Advance(4, sub + 1)
            IN  IF dir_exists(subdir_path)
                THEN \E T \in {Targets(RmCmd(subdir_path))}, o \in Outcomes :
                     \E gone \in Effects(RmCmd(subdir_path), T, o) :
                        /\ Run(RmCmd(subdir_path), "clean_user_cache", o, gone, <<>>)
                        /\ next
                ELSE next /\ UNCHANGED <<fsys, trace>>
    /\ UNCHANGED <<host, sizing, find_failed, stdin, cleanable, total, report, response, env_writes>>

\* clean_old_logs: the order of the four find commands
FindOrder == <<".gz", ".old", ".1", ".2">>

CleanOldLogs ==
    /\ pc = "Executing"
    /\ step = 6
    /\ "old_logs" \in DOMAIN cleanable
    /\ IF sub = 0
       THEN /\ trace' = Append(trace, Event("exec", <<"clean_old_logs">>))
            /\ IF dir_exists(VarLogDir) THEN Advance(6, 1) ELSE Advance(7, 0)
            /\ UNCHANGED <<fsys, find_failed>>
       ELSE \E T \in {Targets(FindCmd(FindOrder[sub]))}, o \in Outcomes :
            \E gone \in Effects(FindCmd(FindOrder[sub]), T, o) :
               LET r == run_command(o)
               IN  /\ Run(FindCmd(FindOrder[sub]), "clean_old_logs", o, gone, <<>>)
                   /\ find_failed' = (find_failed \/ o # "exit0")
                   /\ IF r \notin {"stdout", "None"}
                      THEN ExitOn(r) /\ UNCHANGED <<step, sub>>
                      ELSE IF sub = Len(FindOrder) THEN Advance(7, 0)
                      ELSE Advance(6, sub + 1)
    /\ UNCHANGED <<host, sizing, stdin, cleanable, total, report, response, env_writes>>

\* a difference clamped at zero
FreedClamped(t, nt) == IF t - nt < 0 THEN 0 ELSE t - nt

\* line 248
Freed(t, nt) == t - nt

(***************************************************************************)
(* formatters.py: format_bytes.  The text "362.4 MB" is <<362, 4, "MB">>.  *)
(***************************************************************************)
\* the units of the for loop
Units == <<"B", "KB", "MB", "GB", "TB", "PB">>

\* f"{v:.1f} {unit}" for v = n / den, den a power of base: v rounded to one
\* decimal, a tie going to the even digit.  The tenths are taken from the
\* remainder in two steps so that no intermediate value is larger than n.
Render(n, den, unit, base) ==
    LET q == n \div den
        r == n % den
        e == IF den = 1 THEN 1 ELSE den \div base
        a == r \div e
        b == r % e
        x == 10 * a + (10 * b) \div e
        y == (10 * b) % e
        t == IF den = 1 THEN 0 ELSE x \div base
        m == IF den = 1 THEN 0 ELSE x % base
        up == \/ 2 * m > base
              \/ 2 * m = base /\ y > 0
              \/ 2 * m = base /\ y = 0 /\ t % 2 = 1
        d == IF up THEN t + 1 ELSE t
    IN  IF d = 10 THEN <<q + 1, 0, unit>> ELSE <<q, d, unit>>

\* the for loop: bytes_val is n / den when unit i is tried
RECURSIVE Scale(_, _, _, _)
Scale(n, i, den, base) ==
    IF i > Len(Units) THEN Render(n, den, "EB", base)
    ELSE IF n \div den < base THEN Render(n, den, Units[i], base)
    ELSE Scale(n, i + 1, den * base, base)

\* unit steps of 1000
format_bytes_decimal(bytes_val) == Scale(bytes_val, 1, 1, 1000)

\* lines 67-73
format_bytes(bytes_val) == Scale(bytes_val, 1, 1, 1024)

\* lines 245-251: the second scan and the report; main returns, status 0
RescanReport ==
    /\ pc = "Rescanning"
    /\ new_cleanable' = scan_cleanable_items
    /\ new_total' = SumValues(new_cleanable')
    /\ freed' = Freed(total, new_total')
    /\ rendered' = format_bytes(freed')
    /\ trace' = trace \o <<Event("scan", <<>>), Event("report", <<>>)>>
    /\ pc' = "Done"
    /\ status' = 0
    /\ UNCHANGED <<host, sizing, find_failed, stdin, fsys, step, sub, cleanable, total, response,
                   env_writes>>

\* SIGINT while the interpreter is not waiting for a child: KeyboardInterrupt
\* is raised in perform_cleaning and reaches main
Interrupt ==
    /\ pc \in Running
    /\ trace' = Append(trace, Event("interrupt", <<>>))
    /\ ExitOn("KeyboardInterrupt")
    /\ UNCHANGED <<host, sizing, find_failed, stdin, fsys, step, sub, cleanable, total, report,
                   response, env_writes>>

(***************************************************************************)
(* The rest of the host                                                    *)
(***************************************************************************)
EnvWriteSize == 3

\* another process writes a new file between the two scans
EnvWrite ==
    /\ pc = "Rescanning"
    /\ env_writes < MaxEnvWrites
    /\ dir_exists(TmpDir)
    /\ files' = files @@ (Join(TmpDir, ToString(env_writes + 1)) :> EnvWriteSize)
    /\ env_writes' = env_writes + 1
    /\ UNCHANGED <<host, sizing, find_failed, stdin, dirs, removed, pc, step, sub, cleanable, total,
                   report, response, status, trace>>

Next ==
    \/ Start
    \/ Scan
    \/ Summarize
    \/ UserTypes
    \/ Confirm
    \/ SkipCategory
    \/ CleanAptCache
    \/ CleanDnfCache
    \/ CleanYumCache
    \/ CleanUserCache
    \/ CleanJournalLogs
    \/ CleanOldLogs
    \/ RescanReport
    \/ Interrupt
    \/ EnvWrite

Spec == Init /\ [][Next]_vars

\* scan_cleanable_items on its own, on every host
SpecScan == InitScan /\ [][Scan]_vars

\* the paths get_dir_size is called with: directories that may be there or
\* not, and a regular file
SizePaths == {TmpDir, VarLogDir, JournalDir, CacheDir(HomeUser),
              ThumbnailDir(HomeUser), AptDir, Join(TmpDir, "x.tmp")}

\* one call of get_dir_size
GetDirSize ==
    /\ pc = "Sizing"
    /\ \E top \in SizePaths :
          /\ dirpath' = top
          /\ total_size' = get_dir_size(top)
    /\ pc' = "Sized"
    /\ UNCHANGED <<host, fsys, stdin, step, sub, cleanable, total, report,
                   response, status, trace, env_writes, find_failed>>

\* get_dir_size on its own
SpecSize == InitSize /\ [][GetDirSize]_vars

\* the totals of the two scans that the report is computed from
Totals == {0, 1, 1023, 1024, 1280, 1536, 1048575, 1048576, 120000000,
           500000000, 1073741824, 2000000000}

\* a session about to report, with the totals of its two scans
InitReport ==
    /\ home = HomeUser
    /\ dry_run = FALSE
    /\ euid_root \in BOOLEAN
    /\ dirs = {OtherHome}
    /\ files = HostFiles(home, dirs, TRUE)
    /\ links = NoLinks
    /\ nostat = {}
    /\ denied = {}
    /\ installed = Tools
    /\ InitSession
    /\ pc = "Reporting"

\* lines 248-250: freed and its text
Report ==
    /\ pc = "Reporting"
    /\ \E t \in Totals, nt \in Totals :
          /\ total' = t
          /\ new_total' = nt
          /\ freed' = Freed(t, nt)
          /\ rendered' = format_bytes(freed')
    /\ pc' = "Reported"
    /\ UNCHANGED <<host, sizing, find_failed, fsys, stdin, step, sub, cleanable,
                   new_cleanable, response, status, trace, env_writes>>

\* the arithmetic of the report on its own
SpecReport == InitReport /\ [][Report]_vars

(***************************************************************************)
(* Reading the history                                                     *)
(***************************************************************************)
Happened(k) == \E i \in 1..Len(trace) : trace[i].k = k

ExecEvents == SelectSeq(trace, LAMBDA e : e.k = "exec")

\* the executor actions invoked so far, in order
Invoked == [i \in 1..Len(ExecEvents) |-> ExecEvents[i].a[1]]

\* the external command lines started so far, in order
Commands == LET c == SelectSeq(trace, LAMBDA e : e.k = "cmd")
            IN  [i \in 1..Len(c) |-> c[i].a]

\* the executor action of each key of ExecOrder
ExecFns == <<"clean_apt_cache", "clean_dnf_cache", "clean_yum_cache",
             "clean_user_cache", "clean_journal_logs", "clean_old_logs">>

Range6 == {ExecFns[i] : i \in 1..6}

\* the category that each executor action cleans
CategoryOf ==
    [clean_apt_cache |-> "apt_cache", clean_dnf_cache |-> "dnf_cache",
     clean_yum_cache |-> "yum_cache", clean_user_cache |-> "user_cache",
     clean_journal_logs |-> "journal_logs", clean_old_logs |-> "old_logs"]

\* the executor actions perform_cleaning owes to a snapshot, in order
Owed(snapshot) ==
    SelectSeq(ExecFns, LAMBDA fn : CategoryOf[fn] \in DOMAIN snapshot)

\* this step is line 215 reading a line (not end of file)
ReadsLine ==
    /\ pc = "AwaitingConfirmation"
    /\ stdin # <<>>
    /\ Head(stdin) # EndOfFile
    /\ Len(trace') = Len(trace) + 1
    /\ trace'[Len(trace')].k = "read"

(***************************************************************************)
(* C1: in a dry-run session nothing is read from standard input, no        *)
(* executor action is invoked, no external command is run, no file or      *)
(* directory is removed or changed, and the session ends right after the   *)
(* summary with status 0.                                                  *)
(***************************************************************************)
C1_DryRunState ==
    dry_run =>
        /\ ~Happened("prompt") /\ ~Happened("read")
        /\ ~Happened("exec") /\ ~Happened("cmd")
        /\ removed = {}
        /\ pc \in {"Start", "Scanning", "Summarizing", "DryRunExit", "Exit130"}
        /\ pc = "DryRunExit" => status = 0 /\ trace[Len(trace)].k = "summary"

C1_DryRun ==
    /\ []C1_DryRunState
    /\ [][dry_run => (files' = files /\ dirs' = dirs /\ stdin' = stdin)]_vars

C1_Witness ==
    /\ dry_run
    /\ pc = "DryRunExit"
    /\ {"apt_cache", "user_cache", "journal_logs"} \subseteq DOMAIN cleanable
    /\ total > 0

(***************************************************************************)
(* C2 as stated: every line read at the prompt other than exactly y or Y   *)
(* ends the session in Cancelled.                                          *)
(***************************************************************************)
C2_ExactOnly ==
    [][ReadsLine /\ Head(stdin) \notin {<<"y">>, <<"Y">>}
        => pc' = "Cancelled"]_vars

(***************************************************************************)
(* C2 amended: a line whose form without leading and trailing blanks is    *)
(* other than y or Y ends the session in Cancelled, with no executor       *)
(* action invoked, no command run and nothing removed; a y or Y with       *)
(* blanks around it confirms.                                              *)
(***************************************************************************)
C2_Cancelled ==
    /\ [][ReadsLine =>
            IF Strip(Head(stdin)) \in {<<"y">>, <<"Y">>}
            THEN pc' = "Executing"
            ELSE pc' = "Cancelled"]_vars
    /\ [](pc = "Cancelled" =>
            /\ ~Happened("exec") /\ ~Happened("cmd")
            /\ removed = {}
            /\ status = 0)

C2_Witness ==
    /\ pc = "Cancelled"
    /\ response = <<"y", "n">>
    /\ files # Empty

(***************************************************************************)
(* C3: once an interrupt was delivered nothing more happens: the           *)
(* interrupt is the last event of the session and the process has exited   *)
(* with status 130.                                                        *)
(***************************************************************************)
C3_InterruptStops ==
    \A i \in 1..Len(trace) :
        trace[i].k = "interrupt" =>
            /\ i = Len(trace)
            /\ pc = "Exit130"
            /\ status = 130

(***************************************************************************)
(* C4: after the confirmation no outcome of an external command ends the   *)
(* session with an error: the only exit before the report is the           *)
(* interrupt, and when the executing phase is over every executor action   *)
(* owed to the pre-snapshot was invoked, in order; the session that        *)
(* reaches Done rescanned and reported.                                    *)
(***************************************************************************)
C4_BestEffort ==
    /\ Happened("exec") =>
          /\ pc \in {"Executing", "Rescanning", "Done", "Exit130"}
          /\ pc = "Exit130" => Happened("interrupt")
    /\ pc \in {"Rescanning", "Done"} => Invoked = Owed(cleanable)
    /\ pc = "Done" =>
          /\ trace[Len(trace)].k = "report"
          /\ trace[Len(trace) - 1].k = "scan"
          /\ status = 0

\* dnf clean all was run and left the cache as it was (it did not exit 0),
\* apt-get was not found, and the session went on to the report
C4_Witness ==
    /\ pc = "Done"
    /\ ~Happened("interrupt")
    /\ \E i \in 1..Len(Commands) : Commands[i] = DnfCleanAll
    /\ Join(DnfDir, "repo.solv") \in DOMAIN files
    /\ \E i \in 1..Len(Commands) : Commands[i] = WhichCmd("apt-get")
    /\ \A i \in 1..Len(Commands) : Commands[i] # AptClean
    /\ Invoked = <<"clean_apt_cache", "clean_dnf_cache", "clean_user_cache",
                   "clean_journal_logs", "clean_old_logs">>

(***************************************************************************)
(* C5: everything clean_user_cache removes lies strictly inside one of     *)
(* the four allow-listed subdirectories of $HOME/.cache, so $HOME/.cache   *)
(* itself and every entry outside the four stay.                           *)
(***************************************************************************)
AllowListed(p) ==
    \E i \in 1..Len(safe_dirs) :
        LET d == Join(CacheDir(home), safe_dirs[i])
        IN  Under(d, p) /\ p # d

C5_AllowListOnly ==
    \A r \in removed : r[2] = "clean_user_cache" => AllowListed(r[1])

(***************************************************************************)
(* C6: the executor actions invoked are actions owed to the pre-snapshot,  *)
(* each at most once and in the order APT, DNF, YUM, user cache, journal   *)
(* logs, old logs; every external command runs between the invocation of   *)
(* its own executor action and the invocation of the next one.             *)
(***************************************************************************)
Rank(fn) == CHOOSE i \in 1..6 : ExecFns[i] = fn

\* the executor action that a command line belongs to
OwnerOf(line) ==
    LET prog == IF line[1] = "which" THEN line[3] ELSE line[1]
    IN  CASE prog = "apt-get" -> 1
          [] prog = "dnf" -> 2
          [] prog = "yum" -> 3
          [] prog = "rm" -> 4
          [] prog = "journalctl" -> 5
          [] prog = "find" -> 6

\* the ranks of the executor actions invoked before position i
RanksBefore(i) == {Rank(trace[j].a[1]) : j \in {h \in 1..(i - 1) : trace[h].k = "exec"}}

C6_FixedOrder ==
    /\ \A inv \in {Invoked} : \A i \in 1..Len(inv) :
          /\ CategoryOf[inv[i]] \in DOMAIN cleanable
          /\ i > 1 => Rank(inv[i - 1]) < Rank(inv[i])
    /\ \A i \in 1..Len(trace) :
          trace[i].k = "cmd" =>
              \A before \in {RanksBefore(i)}, owner \in {OwnerOf(trace[i].a)} :
                  /\ owner \in before
                  /\ \A r \in before : r <= owner

C6_Witness ==
    /\ pc = "Done"
    /\ Invoked = <<"clean_apt_cache", "clean_dnf_cache", "clean_user_cache",
                   "clean_journal_logs", "clean_old_logs">>
    /\ "yum_cache" \notin DOMAIN cleanable
    /\ Len(Commands) = 12

(***************************************************************************)
(* C7 as stated: no executor action removes anything under /tmp or         *)
(* /var/tmp, and under /var/log only the rotated files (by clean_old_logs) *)
(* and the journal (by clean_journal_logs) are removed.                    *)
(***************************************************************************)
InTmp(p) == Under(TmpDir, p) \/ Under(VarTmpDir, p)

LogRemoval(r) ==
    \/ r[2] = "clean_old_logs" /\ EndsWith(Name(r[1]), OldLogSuffixes)
    \/ r[2] = "clean_journal_logs" /\ Under(JournalDir, r[1])

Scanned == pc = "Summarizing"

C8_DnfYumExclusive ==
    Scanned =>
        /\ ~({"dnf_cache", "yum_cache"} \subseteq DOMAIN cleanable)
        /\ "dnf_cache" \in DOMAIN cleanable <=> DnfDir \in dirs
        /\ "yum_cache" \in DOMAIN cleanable <=> (YumDir \in dirs /\ DnfDir \notin dirs)

C8_Witness ==
    /\ Scanned
    /\ {DnfDir, YumDir} \subseteq dirs
    /\ "dnf_cache" \in DOMAIN cleanable
    /\ "yum_cache" \notin DOMAIN cleanable

(***************************************************************************)
(* C9: a category other than old_logs is in the snapshot exactly when its  *)
(* directory existed when it was probed (yum is probed only when there is  *)
(* no dnf directory); a directory that cannot be listed gives 0, not an    *)
(* omission; old_logs is in every snapshot, with 0 when /var/log is        *)
(* absent or holds no file named *.gz, *.1, *.2 or *.old.                  *)
(***************************************************************************)
DirOf(c) ==
    CASE c = "apt_cache" -> AptDir
      [] c = "dnf_cache" -> DnfDir
      [] c = "yum_cache" -> YumDir
      [] c = "user_cache" -> CacheDir(home)
      [] c = "thumbnail_cache" -> ThumbnailDir(home)
      [] c = "tmp" -> TmpDir
      [] c = "var_tmp" -> VarTmpDir
      [] c = "system_logs" -> VarLogDir
      [] c = "journal_logs" -> JournalDir

WasProbed(c) == c = "yum_cache" => DnfDir \notin dirs

C9_PresentIffExists ==
    Scanned =>
        /\ \A c \in Categories \ {"old_logs"} :
              /\ c \in DOMAIN cleanable <=> (WasProbed(c) /\ DirOf(c) \in dirs)
              /\ (c \in DOMAIN cleanable /\ DirOf(c) \in denied) => cleanable[c] = 0
        /\ "old_logs" \in DOMAIN cleanable
        /\ (VarLogDir \notin dirs \/ ~\E p \in DOMAIN files : Rotated(p))
              => cleanable["old_logs"] = 0

\* /var/log/journal holds a file but cannot be listed; there are no
\* rotated files and no package cache
C9_Witness ==
    /\ Scanned
    /\ JournalDir \in denied
    /\ Join(JournalDir, "system.journal") \in DOMAIN files
    /\ cleanable["journal_logs"] = 0
    /\ cleanable["system_logs"] > 0
    /\ cleanable["old_logs"] = 0
    /\ DOMAIN cleanable \cap {"apt_cache", "dnf_cache", "yum_cache"} = {}

(***************************************************************************)
(* C10: the freed value reported is the sum of the pre-snapshot minus the  *)
(* sum of the post-snapshot, negative when the host grew; the pre-snapshot *)
(* and its total stay as the first scan left them, and the post-snapshot   *)
(* is the scan of the host as the executor actions left it.                *)
(***************************************************************************)
C10_FreedIsDifference ==
    /\ [](pc = "Done" =>
            /\ freed = SumValues(cleanable) - SumValues(new_cleanable)
            /\ total = SumValues(cleanable)
            /\ new_cleanable = scan_cleanable_items)
    /\ [][(pc \in {"AwaitingConfirmation", "Executing", "Rescanning"})
            => (cleanable' = cleanable /\ total' = total)]_vars

C10_Witness ==
    /\ pc = "Done"
    /\ freed < 0
    /\ removed = {}
    /\ Len(Commands) > 0

(***************************************************************************)
(* C11: a session ends with status 0 exactly when it completed normally    *)
(* (dry-run exit, cancellation, report), with 130 exactly when the user    *)
(* interrupted it, and with 1 exactly when another exception reached main; *)
(* a session that has ended has no other status.                           *)
(***************************************************************************)
Ended == pc \notin Running

C11_ExitStatus ==
    /\ Ended <=> status \in {0, 1, 130}
    /\ status = 0 <=> pc \in {"DryRunExit", "Cancelled", "Done"}
    /\ status = 1 <=> pc = "Exit1"
    /\ status = 130 <=> pc = "Exit130"
    /\ Ended => (status = 130 <=> Happened("interrupt"))

\* the mapping of main alone: what reaches main decides the status
C11_MainMapping ==
    /\ Ended <=> status \in {0, 1, 130}
    /\ status = 0 <=> pc \in {"DryRunExit", "Cancelled", "Done"}
    /\ status = 1 <=> pc = "Exit1"
    /\ status = 130 <=> pc = "Exit130"
    /\ status = 130 => Happened("interrupt")

(***************************************************************************)
(* C12: an executor action invoked while its tool (apt-get, dnf, yum,      *)
(* journalctl) is not installed runs no command of that tool and removes   *)
(* nothing; the step that finds the tool missing leaves every file in      *)
(* place and hands control to the next category (unless the user           *)
(* interrupts).  Once command_exists found apt-get, clean_apt_cache runs   *)
(* apt-get clean and then apt-get autoclean.                               *)
(***************************************************************************)
ToolOf ==
    [clean_apt_cache |-> "apt-get", clean_dnf_cache |-> "dnf",
     clean_yum_cache |-> "yum", clean_journal_logs |-> "journalctl"]

\* perform_cleaning is about to call the executor action fn
Calls(fn) ==
    /\ pc = "Executing"
    /\ sub = 0
    /\ ExecFns[step] = fn
    /\ CategoryOf[fn] \in DOMAIN cleanable

\* the command lines of program prog started so far, in order
CommandsOf(prog) == SelectSeq(Commands, LAMBDA line : line[1] = prog)

C12_AbsentToolNoOp ==
    /\ [](\A fn \in DOMAIN ToolOf :
            ToolOf[fn] \notin installed =>
                /\ CommandsOf(ToolOf[fn]) = <<>>
                /\ \A r \in removed : r[2] # fn)
    /\ [][\A fn \in DOMAIN ToolOf :
            (Calls(fn) /\ ToolOf[fn] \notin installed) =>
                /\ files' = files /\ dirs' = dirs
                /\ \/ pc' = "Exit130"
                   \/ /\ Invoked' = Append(Invoked, fn)
                      /\ step' = step + 1 /\ sub' = 0
                      /\ pc' \in {"Executing", "Rescanning"}
                      /\ status' = status]_vars
    /\ [][(pc = "Executing" /\ step = 1 /\ sub > 0) =>
            \/ pc' = "Exit130"
            \/ /\ sub = 1
               /\ Commands' = Append(Commands, AptClean)
               /\ step' = 1 /\ sub' = 2
            \/ /\ sub = 2
               /\ Commands' = Append(Commands, AptAutoclean)
               /\ step' = 2 /\ sub' = 0]_vars
    /\ [](step > 1 =>
            CommandsOf("apt-get") \in {<<>>, <<AptClean, AptAutoclean>>})

\* apt-get and yum are not installed, dnf is: clean_apt_cache was invoked
\* and ran nothing, the session went on to dnf clean all and to the report
C12_Witness ==
    /\ pc = "Done"
    /\ installed = {"dnf", "journalctl"}
    /\ Invoked[1] = "clean_apt_cache"
    /\ CommandsOf("apt-get") = <<>>
    /\ Join(AptDir, "pkg.deb") \in DOMAIN files
    /\ CommandsOf("dnf") = <<DnfCleanAll>>
    /\ ~Happened("interrupt")

(***************************************************************************)
(* C13: get_dir_size(D) is the sum of the sizes of the regular files       *)
(* reachable from D (in the tree of D, or the target of a symbolic link    *)
(* in it), each file once; a file that cannot be examined, a broken link   *)
(* and everything below a directory that cannot be listed add 0; the       *)
(* result is 0 when D is missing or is not a directory.                    *)
(***************************************************************************)
\* p lies in the tree of D and the walk gets as far as its directory
InTree(D, p) ==
    /\ D \in dirs
    /\ Under(D, p)
    /\ \A x \in denied : ~(Under(D, x) /\ Under(x, Parent(p)))

\* the regular files reachable from D whose size can be read
Reachable(D) ==
    {p \in DOMAIN files \ nostat :
        \/ InTree(D, p)
        \/ \E l \in DOMAIN links \ nostat : InTree(D, l) /\ links[l] = p}

RECURSIVE SumOf(_)
SumOf(S) == IF S = {} THEN 0
            ELSE LET p == CHOOSE q \in S : TRUE
                 IN  files[p] + SumOf(S \ {p})

Sized == pc = "Sized"

C13_ExactSize ==
    Sized =>
        /\ total_size = SumOf(Reachable(dirpath))
        /\ dirpath \notin dirs => total_size = 0

\* a regular file of the tree of D that a symbolic link of the tree leads to
LinkedInside(D) ==
    {p \in DOMAIN files \ nostat :
        /\ InTree(D, p)
        /\ \E l \in DOMAIN links \ nostat : InTree(D, l) /\ links[l] = p}

\* what holds of every call: the exact sum where no file of the tree is
\* also the target of a link of the tree, and 0 for what is no directory
C13_ExactUnlessLinkedInside ==
    Sized =>
        /\ LinkedInside(dirpath) = {} => total_size = SumOf(Reachable(dirpath))
        /\ total_size = SumOf(Reachable(dirpath)) + SumOf(LinkedInside(dirpath))
        /\ dirpath \notin dirs => total_size = 0

(***************************************************************************)
(* C14 as stated: with a pre-total of 500,000,000 bytes and a post-total   *)
(* of 120,000,000 bytes the freed space is 380,000,000 bytes and its text  *)
(* is 380.0 MB.                                                            *)
(***************************************************************************)
Reported == pc = "Reported"

C14_Renders380 ==
    (Reported /\ total = 500000000 /\ new_total = 120000000) =>
        /\ freed = 380000000
        /\ rendered = <<380, 0, "MB">>

(***************************************************************************)
(* C14 amended: the freed space of that session is 380,000,000 bytes and   *)
(* its text is 362.4 MB (380,000,000 / 1024 / 1024 = 362.39...).  In every *)
(* report the unit is the first one that brings the value below 1024, and  *)
(* the number printed is below 1024 up to rounding and is the value cut or *)
(* rounded up to one decimal.                                              *)
(***************************************************************************)
UnitSteps == <<"B", "KB", "MB", "GB", "TB", "PB", "EB">>

\* 1024 to the power k
RECURSIVE Pow1024(_)
Pow1024(k) == IF k = 0 THEN 1 ELSE 1024 * Pow1024(k - 1)

C14_Renders362 ==
    Reported =>
        /\ freed = total - new_total
        /\ (total = 500000000 /\ new_total = 120000000) =>
              /\ freed = 380000000
              /\ rendered = <<362, 4, "MB">>
        /\ \E k \in 0..3 :
              /\ rendered[3] = UnitSteps[k + 1]
              /\ freed \div Pow1024(k) < 1024
              /\ k > 0 => freed \div Pow1024(k - 1) >= 1024
              /\ rendered[2] \in 0..9
              /\ rendered[1] \in {freed \div Pow1024(k), freed \div Pow1024(k) + 1}

C14_Witness ==
    /\ Reported
    /\ total = 500000000
    /\ new_total = 120000000
    /\ rendered = <<362, 4, "MB">>

(***************************************************************************)
(* C15 as stated: the advisory comes after the scan and the summary, in    *)
(* the step from Summarizing to AwaitingConfirmation.                      *)
(***************************************************************************)
C15_AdvisoryAfterSummary ==
    \A i \in 1..Len(trace) :
        trace[i].k = "advisory" =>
            /\ \E j \in 1..(i - 1) : trace[j].k = "scan"
            /\ \E j \in 1..(i - 1) : trace[j].k = "summary"

(***************************************************************************)
(* C15 amended: the advisory is the first thing a session does, before     *)
(* the scan, the summary and the prompt; it is given exactly in the        *)
(* sessions that are neither dry-run nor run as root, once, and the step   *)
(* that gives it goes on to the scan.                                      *)
(***************************************************************************)
\* this step surfaces the advisory
Advises ==
    /\ Len(trace') > Len(trace)
    /\ \E i \in (Len(trace) + 1)..Len(trace') : trace'[i].k = "advisory"

C15_AdvisoryAtStart ==
    /\ [](Happened("advisory") => (~euid_root /\ ~dry_run))
    /\ []((Happened("scan") /\ ~euid_root /\ ~dry_run) => Happened("advisory"))
    /\ [](\A i \in 1..Len(trace) : trace[i].k = "advisory" => i = 1)
    /\ [][Advises => (pc = "Start" /\ pc' = "Scanning" /\ status' = -1)]_vars

C15_Witness ==
    /\ pc = "AwaitingConfirmation"
    /\ ~euid_root
    /\ Len(trace) = 4
    /\ trace[1].k = "advisory"
    /\ trace[2].k = "scan"
    /\ trace[3].k = "summary"
    /\ trace[4].k = "prompt"

(***************************************************************************)
(* C16: a session moves Scanning, Summarizing, then DryRunExit, or         *)
(* AwaitingConfirmation and Cancelled, or AwaitingConfirmation, Executing, *)
(* Rescanning and (through the report) Done; an interrupt or an error      *)
(* cuts the sequence short.  The scan has run once in DryRunExit and in    *)
(* Cancelled and twice in Done; the second scan starts when every          *)
(* executor action owed to the pre-snapshot was invoked; a freed value is  *)
(* reported only after both scans, and never otherwise.                    *)
(***************************************************************************)
Edges ==
    {<<"Start", "Scanning">>, <<"Scanning", "Summarizing">>,
     <<"Summarizing", "DryRunExit">>, <<"Summarizing", "AwaitingConfirmation">>,
     <<"AwaitingConfirmation", "Cancelled">>, <<"AwaitingConfirmation", "Executing">>,
     <<"Executing", "Rescanning">>, <<"Rescanning", "Done">>}

\* an exception that reaches main cuts the sequence
Aborts == {"Exit130", "Exit1"}

ScanCount == Len(SelectSeq(trace, LAMBDA e : e.k = "scan"))

C16_StateSequence ==
    /\ [][(pc' # pc) =>
            \/ <<pc, pc'>> \in Edges
            \/ pc \in Running /\ pc' \in Aborts]_vars
    /\ [](\A n \in {ScanCount} :
            /\ pc \in {"Start", "Scanning"} => n = 0
            /\ pc \in {"Summarizing", "DryRunExit", "AwaitingConfirmation",
                       "Cancelled", "Executing", "Rescanning"} => n = 1
            /\ pc = "Done" => n = 2
            /\ pc \in Aborts => n <= 1)
    /\ [][(ScanCount' = 2 /\ ScanCount = 1) =>
            /\ pc = "Rescanning"
            /\ Invoked = Owed(cleanable)
            /\ trace'[Len(trace')].k = "report"
            /\ pc' = "Done"]_vars
    /\ [](IF Happened("report")
          THEN pc = "Done" /\ ScanCount = 2 /\ freed = total - new_total
          ELSE freed = 0 /\ rendered = <<>>)

C16_Witness ==
    /\ pc = "Done"
    /\ ScanCount = 2
    /\ Len(Invoked) = 5
    /\ Invoked = Owed(cleanable)
    /\ rendered # <<>>
    /\ freed > 0

(***************************************************************************)
(* C17: in a session that reaches the report with no concurrent write,     *)
(* the freed value reported is the total size of the files that the        *)
(* executor actions removed.                                               *)
(***************************************************************************)
\* the size that a file of the host had when the session started
SizeAtStart(p) == (CHOOSE t \in FileTable(home) : t[1] = p)[2]

\* the files (not the directories) removed so far
RemovedFiles == {r[1] : r \in removed} \cap {t[1] : t \in FileTable(home)}

RECURSIVE RemovedBytes(_)
RemovedBytes(S) == IF S = {} THEN 0
                   ELSE LET p == CHOOSE q \in S : TRUE
                        IN  SizeAtStart(p) + RemovedBytes(S \ {p})

Quiet == env_writes = 0

C17_FreedIsRemoved ==
    (pc = "Done" /\ Quiet) => freed = RemovedBytes(RemovedFiles)

\* the number of categories of the pre-snapshot that count the file p
CountedIn(p) ==
    Cardinality({c \in DOMAIN cleanable \ {"old_logs"} : Under(DirOf(c), p)})
    + (IF Under(VarLogDir, p) /\ EndsWith(Name(p), OldLogSuffixes) THEN 1 ELSE 0)

RECURSIVE CountedBytes(_)
CountedBytes(S) == IF S = {} THEN 0
                   ELSE LET p == CHOOSE q \in S : TRUE
                        IN  SizeAtStart(p) * CountedIn(p) + CountedBytes(S \ {p})

\* what the report does measure: every removed file once for each category
\* that holds it
C17_FreedCountsCategories ==
    (pc = "Done" /\ Quiet) => freed = CountedBytes(RemovedFiles)

(***************************************************************************)
(* C18: when clean_old_logs is about to run its commands, the entries      *)
(* under /var/log that the scan counts in old_logs are exactly the files   *)
(* that its four find commands match; and when all four commands exited 0  *)
(* and no other process wrote, the post-snapshot has old_logs = 0.         *)
(***************************************************************************)
\* the entries whose size the walk of lines 72-78 adds to old_logs
CountedOldLogs ==
    {p \in Walk(VarLogDir) : EndsWith(Name(p), OldLogSuffixes) /\ ~StatFails(p)}

\* what the four find commands of clean_old_logs match
MatchedOldLogs == UNION {Targets(FindCmd(FindOrder[i])) : i \in 1..Len(FindOrder)}

AboutToFind == pc = "Executing" /\ step = 6 /\ sub = 1

\* clean_old_logs ran its four commands and each of them exited 0
FindsSucceeded == Len(CommandsOf("find")) = Len(FindOrder) /\ ~find_failed

C18_OldLogsAgree ==
    /\ AboutToFind => CountedOldLogs = MatchedOldLogs
    /\ (pc = "Done" /\ Quiet /\ FindsSucceeded) => new_cleanable["old_logs"] = 0

\* what holds: on a host without symbolic links the two sets agree, and in
\* every session the finds match only entries that the scan counts
C18_AgreeWithoutLinks ==
    /\ AboutToFind =>
          /\ MatchedOldLogs \subseteq CountedOldLogs
          /\ links = NoLinks => CountedOldLogs = MatchedOldLogs
    /\ (pc = "Done" /\ Quiet /\ FindsSucceeded /\ links = NoLinks)
          => new_cleanable["old_logs"] = 0

(***************************************************************************)
(* C19: on a host where /var/cache/dnf exists clean_yum_cache is never     *)
(* invoked and no yum command is run, not even the probe for yum, also     *)
(* when /var/cache/yum exists and yum is installed.  clean_old_logs is     *)
(* invoked in every confirmed session: it is the last action invoked when  *)
(* the executing phase is over, nothing but an interrupt stands between    *)
(* the sixth block and its invocation, and it runs no find command when    *)
(* /var/log is absent.                                                     *)
(***************************************************************************)
\* the command line names yum (as the program or as the argument of which)
NamesYum(line) == \E i \in 1..Len(line) : line[i] = "yum"

C19_SnapshotSelects ==
    /\ [](DnfDir \in dirs =>
            /\ \A i \in 1..Len(Invoked) : Invoked[i] # "clean_yum_cache"
            /\ \A i \in 1..Len(Commands) : ~NamesYum(Commands[i]))
    /\ [](pc \in {"Rescanning", "Done"} =>
            /\ Invoked # <<>>
            /\ Invoked[Len(Invoked)] = "clean_old_logs")
    /\ [][(pc = "Executing" /\ step = 6 /\ sub = 0) =>
            \/ pc' = "Exit130"
            \/ Invoked' = Append(Invoked, "clean_old_logs")]_vars
    /\ [](VarLogDir \notin dirs => CommandsOf("find") = <<>>)

\* dnf and yum directories are both there and every tool is installed;
\* there is no /var/log
C19_Witness ==
    /\ pc = "Done"
    /\ {DnfDir, YumDir} \subseteq dirs
    /\ installed = Tools
    /\ VarLogDir \notin dirs
    /\ CommandsOf("dnf") = <<DnfCleanAll>>
    /\ Invoked[Len(Invoked)] = "clean_old_logs"
    /\ CommandsOf("find") = <<>>
    /\ new_cleanable["old_logs"] = 0

====
